---- MODULE Spec2Model ----
(***************************************************************************)
(* Model of entity_registry_cleanup.py: the patch pass over the entity     *)
(* registry document (clean_roborock_entities) and the backup / clean /    *)
(* restore sequence of main().                                             *)
(*                                                                         *)
(* JSON values are records [t, v] so that Python's comparisons (==, in,    *)
(* truthiness, `is True`) can be modelled as the interpreter computes      *)
(* them.  A file's content is a record [kind, fmt, doc, upto]: a complete  *)
(* JSON text in some layout, unparsable text, a prefix left by an          *)
(* interrupted write, or no file at all.                                   *)
(***************************************************************************)
EXTENDS Integers, Sequences, FiniteSets, TLC

\* ------------------------------------------------------------------ bounds
MaxEntities == 2        \* records per document in the patch specification
MaxMainEntities == 2    \* records per registry file in the main specification

\* ------------------------------------------------------------ JSON values
JStr(s) == [t |-> "str", v |-> s]
JNull == [t |-> "null", v |-> ""]
JTrue == [t |-> "bool", v |-> "true"]
JFalse == [t |-> "bool", v |-> "false"]
JOne == [t |-> "num", v |-> "1"]

\* bool(x) of the interpreter: None, "", False and 0 are falsy
Truthy(x) ==
    ~ \/ x.t = "null"
      \/ (x.t = "str" /\ x.v = "")
      \/ (x.t = "bool" /\ x.v = "false")
      \/ (x.t = "num" /\ x.v = "0")

\* x is True: identity with the singleton True; the number 1 is not True
IsTrue(x) == x.t = "bool" /\ x.v = "true"

\* x == 'literal'
EqStr(x, s) == x.t = "str" /\ x.v = s

\* x in {set of str literals}
InNames(x, names) == x.t = "str" /\ x.v \in names

problematic_names ==
    {"Duration", "Battery", "Timestamp", "Enum", "Area", "Energy", "Power", "Volume"}

\* --------------------------------------------------------------- patch pass
\* mutant: the has_entity_name test is left out
IsProblematicNoFlag(entity) ==
    /\ EqStr(entity.platform, "roborock")
    /\ InNames(entity.original_name, problematic_names)
    /\ Truthy(entity.translation_key)

\* mutant: the original_name test is left out
IsProblematicAnyName(entity) ==
    /\ EqStr(entity.platform, "roborock")
    /\ Truthy(entity.translation_key)
    /\ IsTrue(entity.has_entity_name)

\* the condition of the if statement in the loop; entity.get(k) is the field
\* (JNull when the key is absent or null)
IsProblematic(entity) ==
    /\ EqStr(entity.platform, "roborock")
    /\ InNames(entity.original_name, problematic_names)
    /\ Truthy(entity.translation_key)
    /\ IsTrue(entity.has_entity_name)

\* mutant: the name is blanked instead of set to None
CleanEntityEmptyString(entity) == [entity EXCEPT !.original_name = JStr("")]

\* entity['original_name'] = None
CleanEntity(entity) == [entity EXCEPT !.original_name = JNull]

RECURSIVE CleanLoopCountAll(_, _, _)
\* mutant: cleaned_count += 1 sits outside the if
CleanLoopCountAll(entities, i, count) ==
    IF i > Len(entities)
    THEN [entities |-> entities, cleaned_count |-> count]
    ELSE IF IsProblematic(entities[i])
         THEN CleanLoopCountAll([entities EXCEPT ![i] = CleanEntity(entities[i])], i + 1, count + 1)
         ELSE CleanLoopCountAll(entities, i + 1, count + 1)

RECURSIVE CleanLoop(_, _, _)
\* for entity in entities: ... ; i is the loop position
CleanLoop(entities, i, count) ==
    IF i > Len(entities)
    THEN [entities |-> entities, cleaned_count |-> count]
    ELSE IF IsProblematic(entities[i])
         THEN CleanLoop([entities EXCEPT ![i] = CleanEntity(entities[i])], i + 1, count + 1)
         ELSE CleanLoop(entities, i + 1, count)

\* the in-place patch of the loaded registry and the count it computes
PatchPass(doc) ==
    LET r == CleanLoop(doc.entities, 1, 0)
    IN  [doc |-> [doc EXCEPT !.entities = r.entities], cleaned_count |-> r.cleaned_count]

\* ------------------------------------------------------------- input domains
EntityIds == <<"sensor.s7_main_brush", "sensor.s7_battery", "sensor.s7_filter", "sensor.s7_side_brush">>

Platforms == {JStr("roborock"), JStr("xiaomi_miio")}
OriginalNames == {JStr("Duration"), JStr("Kitchen"), JNull}
TranslationKeys == {JStr("main_brush_time_left"), JStr(""), JNull}
EntityNameFlags == {JTrue, JFalse, JOne}

RecordBodies ==
    [platform : Platforms, original_name : OriginalNames,
     translation_key : TranslationKeys, has_entity_name : EntityNameFlags]

MkEntity(i, b) ==
    [entity_id |-> JStr(EntityIds[i]), platform |-> b.platform,
     original_name |-> b.original_name, translation_key |-> b.translation_key,
     has_entity_name |-> b.has_entity_name]

\* the document with the records f[1..k]
MkDoc(k, f) == [meta |-> "v1", entities |-> [i \in 1..k |-> MkEntity(i, f[i])]]

\* the documents of at most n records over `bodies`
DocsOver(bodies, n) ==
    UNION { { MkDoc(k, f) : f \in [1..k -> bodies] } : k \in 0..n }

\* records of the registry files the main specification starts from
MainBodies ==
    [platform : {JStr("roborock")}, original_name : {JStr("Duration"), JNull},
     translation_key : {JStr("main_brush_time_left")}, has_entity_name : {JTrue, JFalse}]

MainDocs == DocsOver(MainBodies, MaxMainEntities)

\* ------------------------------------------------------------ file contents
NoDoc == [meta |-> "none", entities |-> << >>]
Missing == [kind |-> "missing", fmt |-> "", doc |-> NoDoc, upto |-> 0]
Garbage == [kind |-> "garbage", fmt |-> "", doc |-> NoDoc, upto |-> 0]
JsonText(fmt, doc) == [kind |-> "json", fmt |-> fmt, doc |-> doc, upto |-> Len(doc.entities)]

\* a backup left behind by an earlier run
StaleBackup == JsonText("compact", [meta |-> "v0", entities |-> << >>])

\* json.load(f): the document of a complete JSON text; anything else raises
Parsable(content) == content.kind = "json"
Load(content) == content.doc

\* json.dump(registry, f, indent=2): always the indented layout
Dump(doc) == JsonText("indent2", doc)

\* what an interrupted write leaves of `content`: the text up to record k
Prefix(content, k) == [content EXCEPT !.kind = "partial", !.upto = k]

\* how far an interrupted write of `content` can have got
CutPoints(content) == 0..Len(content.doc.entities)

\* pc             position in main() / clean_roborock_entities()
\* regFile        content at ENTITY_REGISTRY_PATH
\* backupFile     content at BACKUP_PATH
\* registry       the loaded document (local of clean_roborock_entities)
\* cleaned_count  local of clean_roborock_entities
\* cleanResult    return value of clean_roborock_entities: "none", "True", "False"
\* exitCode       -1 while running, then the process exit status
\* log            console lines and file operations, in order
\* origReg        history: content of the registry file when main started
\* origBackup     history: content of the backup file when main started
\* ppc            patch specification: "in", "once", "twice"
\* patchIn        patch specification: the input document
\* patchOut       patch specification: result of the latest pass
\* patchFirst     patch specification: result of the first pass
\* current_map    coordinator.current_map (NoMap for None)
\* vacState       coordinator.data.status.state
\* selected_room_id  RoborockRoomSelectEntity._selected_room_id (NoRoom for None)
\* sent           commands passed to send(), in order
\* lastOp         the latest call on an entity or coordinator update, with its result
\* nCalls         number of async_select_option / async_press calls made
\* lastGood       history: id stored by the latest async_select_option call whose
\*                option was a room name of the then-current map
\* fpc            entity_registry_fix.main: position
\* stringsFile    content at custom_components/roborock/strings.json
\* strings_data   entity_registry_fix.main: the sensor translations loaded
\* fixOut         entity_registry_fix.main: console lines, in order
\* fixOps         entity_registry_fix.main: file operations, in order
\* origStrings    history: content of strings.json when the script started
VARIABLES pc, regFile, backupFile, registry, cleaned_count, cleanResult, exitCode, log, origReg, origBackup, ppc, patchIn, patchOut, patchFirst, fpc, stringsFile, strings_data, fixOut, fixOps, origStrings, current_map, vacState, selected_room_id, sent, lastOp, nCalls, lastGood

mainVars == <<pc, regFile, backupFile, registry, cleaned_count, cleanResult,
              exitCode, log, origReg, origBackup>>
patchVars == <<ppc, patchIn, patchOut, patchFirst>>
fixVars == <<fpc, stringsFile, strings_data, fixOut, fixOps, origStrings>>
vars == <<pc, regFile, backupFile, registry, cleaned_count, cleanResult,
          exitCode, log, origReg, origBackup, ppc, patchIn, patchOut, patchFirst,
          fpc, stringsFile, strings_data, fixOut, fixOps, origStrings,
          current_map, vacState, selected_room_id, sent, lastOp, nCalls, lastGood>>
roomVars == <<current_map, vacState, selected_room_id, sent, lastOp, nCalls, lastGood>>

NoMap == -1
NoRoom == -1
NoOp == [op |-> "none", arg |-> "", result |-> << >>]

RoomIdle ==
    /\ current_map = NoMap /\ vacState = "idle" /\ selected_room_id = NoRoom
    /\ sent = << >> /\ lastOp = NoOp /\ nCalls = 0 /\ lastGood = NoRoom

\* strings.json: absent, not JSON, JSON whose entity.sensor is not a
\* container, or JSON with a mapping of sensor translation keys
StringsFile(kind, keys) == [kind |-> kind, keys |-> keys]

FixIdle ==
    /\ fpc = "idle" /\ stringsFile = StringsFile("missing", {}) /\ strings_data = {}
    /\ fixOut = << >> /\ fixOps = << >> /\ origStrings = StringsFile("missing", {})

NoResult == [doc |-> NoDoc, cleaned_count |-> 0]

\* ------------------------------------------------------- patch specification
PatchIdle ==
    /\ ppc = "idle" /\ patchIn = NoDoc /\ patchOut = NoResult /\ patchFirst = NoResult

MainIdle ==
    /\ pc = "idle" /\ regFile = Missing /\ backupFile = Missing
    /\ registry = NoDoc /\ cleaned_count = 0 /\ cleanResult = "none"
    /\ exitCode = -1 /\ log = << >> /\ origReg = Missing /\ origBackup = Missing

PatchInit ==
    /\ MainIdle
    /\ FixIdle
    /\ RoomIdle
    /\ ppc = "in"
    /\ \E k \in 0..MaxEntities : \E f \in [1..k -> RecordBodies] : patchIn = MkDoc(k, f)
    /\ patchOut = NoResult
    /\ patchFirst = NoResult

\* the loop of clean_roborock_entities applied to the input document
PatchOnce ==
    /\ ppc = "in"
    /\ patchOut' = PatchPass(patchIn)
    /\ patchFirst' = PatchPass(patchIn)
    /\ ppc' = "once"
    /\ UNCHANGED <<patchIn, mainVars, fixVars, roomVars>>

\* the loop applied to the document the first pass produced
PatchAgain ==
    /\ ppc = "once"
    /\ patchOut' = PatchPass(patchOut.doc)
    /\ ppc' = "twice"
    /\ UNCHANGED <<patchIn, patchFirst, mainVars, fixVars, roomVars>>

PatchNext == PatchOnce \/ PatchAgain

SpecPatch == PatchInit /\ [][PatchNext]_vars

\* -------------------------------------------------------- main specification
Fmts == {"compact", "indent2"}

RegistryFiles == {Missing, Garbage} \cup { JsonText(f, d) : f \in Fmts, d \in MainDocs }

MainInit ==
    /\ PatchIdle
    /\ FixIdle
    /\ RoomIdle
    /\ pc = "main"
    /\ regFile \in RegistryFiles
    /\ backupFile \in {Missing, StaleBackup}
    /\ origReg = regFile
    /\ origBackup = backupFile
    /\ registry = NoDoc
    /\ cleaned_count = 0
    /\ cleanResult = "none"
    /\ exitCode = -1
    /\ log = << >>

Exists(content) == content.kind # "missing"

\* mutant: the missing file is reported but the exit status is 0
MainNotFoundExitsZero ==
    /\ pc = "main"
    /\ ~Exists(regFile)
    /\ log' = log \o <<"out:not_found">>
    /\ exitCode' = 0
    /\ pc' = "done"
    /\ UNCHANGED <<regFile, backupFile, registry, cleaned_count, cleanResult,
                   origReg, origBackup, patchVars, fixVars, roomVars>>

\* main: the registry file does not exist
MainNotFound ==
    /\ pc = "main"
    /\ ~Exists(regFile)
    /\ log' = log \o <<"out:not_found">>
    /\ exitCode' = 1
    /\ pc' = "done"
    /\ UNCHANGED <<regFile, backupFile, registry, cleaned_count, cleanResult,
                   origReg, origBackup, patchVars, fixVars, roomVars>>

\* main: the registry file exists, go on to the backup
MainFound ==
    /\ pc = "main"
    /\ Exists(regFile)
    /\ pc' = "backup"
    /\ UNCHANGED <<regFile, backupFile, registry, cleaned_count, cleanResult,
                   exitCode, log, origReg, origBackup, patchVars, fixVars, roomVars>>

\* mutant: success is reported although nothing was copied
BackupOkNoCopy ==
    /\ pc = "backup"
    /\ Exists(regFile)
    /\ log' = log \o <<"out:backup_created">>
    /\ pc' = "clean_load"
    /\ UNCHANGED <<regFile, backupFile, registry, cleaned_count, cleanResult, exitCode,
                   origReg, origBackup, patchVars, fixVars, roomVars>>

\* backup_entity_registry returns True: shutil.copy2 copied the file
BackupOk ==
    /\ pc = "backup"
    /\ Exists(regFile)
    /\ backupFile' = regFile
    /\ log' = log \o <<"backup_open_w", "out:backup_created">>
    /\ pc' = "clean_load"
    /\ UNCHANGED <<regFile, registry, cleaned_count, cleanResult, exitCode,
                   origReg, origBackup, patchVars, fixVars, roomVars>>

\* mutant: main ignores the False returned by backup_entity_registry
BackupFailProceeds ==
    /\ pc = "backup"
    /\ \E stage \in {-1} \cup CutPoints(regFile) :
          /\ backupFile' = IF stage = -1 THEN backupFile ELSE Prefix(regFile, stage)
          /\ log' = log \o (IF stage = -1 THEN << >> ELSE <<"backup_open_w">>)
                         \o <<"out:backup_failed">>
    /\ pc' = "clean_load"
    /\ UNCHANGED <<regFile, registry, cleaned_count, cleanResult, exitCode,
                   origReg, origBackup, patchVars, fixVars, roomVars>>

\* backup_entity_registry returns False: shutil.copy2 raised, either before
\* the destination was opened or part of the way through the copy
BackupFail ==
    /\ pc = "backup"
    /\ \E stage \in {-1} \cup CutPoints(regFile) :
          /\ backupFile' = IF stage = -1 THEN backupFile ELSE Prefix(regFile, stage)
          /\ log' = log \o (IF stage = -1 THEN << >> ELSE <<"backup_open_w">>)
                         \o <<"out:backup_failed", "out:cannot_proceed">>
    /\ exitCode' = 1
    /\ pc' = "done"
    /\ UNCHANGED <<regFile, registry, cleaned_count, cleanResult,
                   origReg, origBackup, patchVars, fixVars, roomVars>>

\* clean_roborock_entities: open(..., 'r') and json.load succeed
CleanLoadOk ==
    /\ pc = "clean_load"
    /\ Parsable(regFile)
    /\ registry' = Load(regFile)
    /\ log' = log \o <<"reg_open_r">>
    /\ pc' = "clean_patch"
    /\ UNCHANGED <<regFile, backupFile, cleaned_count, cleanResult, exitCode,
                   origReg, origBackup, patchVars, fixVars, roomVars>>

\* mutant: the registry file is opened in a writing mode for the load, so a
\* failed load leaves it truncated
CleanLoadFailTruncates ==
    /\ pc = "clean_load"
    /\ \E cause \in {"io"} \cup (IF Parsable(regFile) THEN {} ELSE {"parse"}) :
          log' = log \o <<"reg_open_w", "raise_read:" \o cause, "out:clean_failed">>
    /\ regFile' = Prefix(regFile, 0)
    /\ cleanResult' = "False"
    /\ pc' = "main_result"
    /\ UNCHANGED <<backupFile, registry, cleaned_count, exitCode,
                   origReg, origBackup, patchVars, fixVars, roomVars>>

\* clean_roborock_entities: the read raises (I/O error, or json.load on text
\* that is not JSON); the except clause reports it and returns False
CleanLoadFail ==
    /\ pc = "clean_load"
    /\ \E cause \in {"io"} \cup (IF Parsable(regFile) THEN {} ELSE {"parse"}) :
          log' = log \o <<"raise_read:" \o cause, "out:clean_failed">>
    /\ cleanResult' = "False"
    /\ pc' = "main_result"
    /\ UNCHANGED <<regFile, backupFile, registry, cleaned_count, exitCode,
                   origReg, origBackup, patchVars, fixVars, roomVars>>

\* clean_roborock_entities: the loop over the entities
CleanPatch ==
    /\ pc = "clean_patch"
    /\ registry' = PatchPass(registry).doc
    /\ cleaned_count' = PatchPass(registry).cleaned_count
    /\ pc' = "clean_write"
    /\ UNCHANGED <<regFile, backupFile, cleanResult, exitCode, log,
                   origReg, origBackup, patchVars, fixVars, roomVars>>

\* clean_roborock_entities: cleaned_count > 0 and the write succeeds
CleanWriteOk ==
    /\ pc = "clean_write"
    /\ cleaned_count > 0
    /\ regFile' = Dump(registry)
    /\ log' = log \o <<"reg_open_w", "out:cleaned">>
    /\ cleanResult' = "True"
    /\ pc' = "main_result"
    /\ UNCHANGED <<backupFile, registry, cleaned_count, exitCode,
                   origReg, origBackup, patchVars, fixVars, roomVars>>

\* clean_roborock_entities: cleaned_count > 0 and the write raises, either
\* at open (file untouched) or after open(..., 'w') truncated the file and
\* json.dump had written some prefix of the text
CleanWriteFail ==
    /\ pc = "clean_write"
    /\ cleaned_count > 0
    /\ \E stage \in {-1} \cup CutPoints(Dump(registry)) :
          /\ regFile' = IF stage = -1 THEN regFile ELSE Prefix(Dump(registry), stage)
          /\ log' = log \o (IF stage = -1 THEN << >> ELSE <<"reg_open_w">>)
                         \o <<"raise_write", "out:clean_failed">>
    /\ cleanResult' = "False"
    /\ pc' = "main_result"
    /\ UNCHANGED <<backupFile, registry, cleaned_count, exitCode,
                   origReg, origBackup, patchVars, fixVars, roomVars>>

\* mutant: the registry is written back whatever cleaned_count is
CleanNoWriteRewrites ==
    /\ pc = "clean_write"
    /\ ~(cleaned_count > 0)
    /\ regFile' = Dump(registry)
    /\ log' = log \o <<"reg_open_w", "out:already_clean">>
    /\ cleanResult' = "True"
    /\ pc' = "main_result"
    /\ UNCHANGED <<backupFile, registry, cleaned_count, exitCode,
                   origReg, origBackup, patchVars, fixVars, roomVars>>

\* clean_roborock_entities: cleaned_count = 0, nothing is written
CleanNoWrite ==
    /\ pc = "clean_write"
    /\ ~(cleaned_count > 0)
    /\ log' = log \o <<"out:already_clean">>
    /\ cleanResult' = "True"
    /\ pc' = "main_result"
    /\ UNCHANGED <<regFile, backupFile, registry, cleaned_count, exitCode,
                   origReg, origBackup, patchVars, fixVars, roomVars>>

\* main: clean_roborock_entities returned True; main returns normally
MainSuccess ==
    /\ pc = "main_result"
    /\ cleanResult = "True"
    /\ log' = log \o <<"out:completed">>
    /\ exitCode' = 0
    /\ pc' = "done"
    /\ UNCHANGED <<regFile, backupFile, registry, cleaned_count, cleanResult,
                   origReg, origBackup, patchVars, fixVars, roomVars>>

\* mutant: the failure branch exits without restoring
MainFailureNoRestore ==
    /\ pc = "main_result"
    /\ cleanResult = "False"
    /\ exitCode' = 1
    /\ pc' = "done"
    /\ UNCHANGED <<regFile, backupFile, registry, cleaned_count, cleanResult,
                   log, origReg, origBackup, patchVars, fixVars, roomVars>>

\* main: clean_roborock_entities returned False
MainFailure ==
    /\ pc = "main_result"
    /\ cleanResult = "False"
    /\ log' = log \o <<"out:restoring">>
    /\ pc' = "restore"
    /\ UNCHANGED <<regFile, backupFile, registry, cleaned_count, cleanResult,
                   exitCode, origReg, origBackup, patchVars, fixVars, roomVars>>

\* mutant: sys.exit(1) sits inside the except clause, so a successful restore
\* falls off the end of main
RestoreOkExitsZero ==
    /\ pc = "restore"
    /\ regFile' = backupFile
    /\ log' = log \o <<"restore_open_w", "out:restored">>
    /\ exitCode' = 0
    /\ pc' = "done"
    /\ UNCHANGED <<backupFile, registry, cleaned_count, cleanResult,
                   origReg, origBackup, patchVars, fixVars, roomVars>>

\* mutant: the arguments of the restoring copy are swapped
RestoreOkSwapped ==
    /\ pc = "restore"
    /\ backupFile' = regFile
    /\ log' = log \o <<"backup_open_w", "out:restored">>
    /\ exitCode' = 1
    /\ pc' = "done"
    /\ UNCHANGED <<regFile, registry, cleaned_count, cleanResult,
                   origReg, origBackup, patchVars, fixVars, roomVars>>

\* main: shutil.copy2(BACKUP_PATH, ENTITY_REGISTRY_PATH) succeeds; sys.exit(1)
RestoreOk ==
    /\ pc = "restore"
    /\ regFile' = backupFile
    /\ log' = log \o <<"restore_open_w", "out:restored">>
    /\ exitCode' = 1
    /\ pc' = "done"
    /\ UNCHANGED <<backupFile, registry, cleaned_count, cleanResult,
                   origReg, origBackup, patchVars, fixVars, roomVars>>

\* main: the restoring copy raises, before the registry file was opened or
\* part of the way through; sys.exit(1)
RestoreFail ==
    /\ pc = "restore"
    /\ \E stage \in {-1} \cup CutPoints(backupFile) :
          /\ regFile' = IF stage = -1 THEN regFile ELSE Prefix(backupFile, stage)
          /\ log' = log \o (IF stage = -1 THEN << >> ELSE <<"restore_open_w">>)
                         \o <<"out:restore_failed">>
    /\ exitCode' = 1
    /\ pc' = "done"
    /\ UNCHANGED <<backupFile, registry, cleaned_count, cleanResult,
                   origReg, origBackup, patchVars, fixVars, roomVars>>

Next ==
    \/ MainNotFound
    \/ MainFound
    \/ BackupOk
    \/ BackupFail
    \/ CleanLoadOk
    \/ CleanLoadFail
    \/ CleanPatch
    \/ CleanWriteOk
    \/ CleanWriteFail
    \/ CleanNoWrite
    \/ MainSuccess
    \/ MainFailure
    \/ RestoreOk
    \/ RestoreFail

Spec == MainInit /\ [][Next]_vars

\* ------------------------------------------- entity_registry_fix.py: main
FixLine(tag, key, n) == [tag |-> tag, key |-> key, n |-> n]

\* mutant: the last key is left out of the list
critical_keysShort == <<"main_brush_time_left", "cleaning_time">>

critical_keys == <<"main_brush_time_left", "cleaning_time", "total_rooms_available">>

\* keys a strings.json may hold under entity.sensor
SensorKeys ==
    {"main_brush_time_left", "cleaning_time", "total_rooms_available",
     "filter_time_left", "side_brush_time_left"}

StringsFiles ==
    {StringsFile("missing", {}), StringsFile("garbage", {}), StringsFile("badshape", {})}
        \cup { StringsFile("json", ks) : ks \in SUBSET SensorKeys }

RECURSIVE KeyLines(_, _, _)
\* for key in critical_keys: one line per key, found or MISSING
KeyLines(keys, i, sensor_translations) ==
    IF i > Len(keys)
    THEN << >>
    ELSE <<FixLine(IF keys[i] \in sensor_translations THEN "key_found" ELSE "key_missing",
                   keys[i], 0)>>
            \o KeyLines(keys, i + 1, sensor_translations)

FixInit ==
    /\ MainIdle
    /\ PatchIdle
    /\ RoomIdle
    /\ fpc = "start"
    /\ stringsFile \in StringsFiles
    /\ origStrings = stringsFile
    /\ strings_data = {}
    /\ fixOut = << >>
    /\ fixOps = << >>

\* the diagnosis and solution steps printed before the file is looked at
FixIntro ==
    /\ fpc = "start"
    /\ fixOut' = fixOut \o <<FixLine("instructions", "", 0), FixLine("verify_header", "", 0)>>
    /\ fpc' = "verify"
    /\ UNCHANGED <<stringsFile, strings_data, fixOps, origStrings, mainVars, patchVars, roomVars>>

\* strings_path.exists() is False
FixNotFound ==
    /\ fpc = "verify"
    /\ stringsFile.kind = "missing"
    /\ fixOps' = fixOps \o <<"exists">>
    /\ fixOut' = fixOut \o <<FixLine("strings_not_found", "", 0)>>
    /\ fpc' = "final"
    /\ UNCHANGED <<stringsFile, strings_data, origStrings, mainVars, patchVars, roomVars>>

\* the file is read and parsed, the count line and the per-key lines follow
FixLoadOk ==
    /\ fpc = "verify"
    /\ stringsFile.kind = "json"
    /\ fixOps' = fixOps \o <<"exists", "open_r">>
    /\ strings_data' = stringsFile.keys
    /\ fixOut' = fixOut \o <<FixLine("strings_found", "", Cardinality(stringsFile.keys))>>
                        \o KeyLines(critical_keys, 1, stringsFile.keys)
    /\ fpc' = "final"
    /\ UNCHANGED <<stringsFile, origStrings, mainVars, patchVars, roomVars>>

\* open, json.load or the len() of the count line raises: the except clause
\* prints the error and the loop over the keys is not reached
FixLoadFail ==
    /\ fpc = "verify"
    /\ stringsFile.kind # "missing"
    /\ \E cause \in {"io"} \cup (IF stringsFile.kind = "json" THEN {} ELSE {stringsFile.kind}) :
          fixOps' = fixOps \o <<"exists", "open_r:" \o cause>>
    /\ fixOut' = fixOut \o <<FixLine("strings_error", "", 0)>>
    /\ fpc' = "final"
    /\ UNCHANGED <<stringsFile, strings_data, origStrings, mainVars, patchVars, roomVars>>

\* the closing sections printed in every run
FixFinal ==
    /\ fpc = "final"
    /\ fixOut' = fixOut \o <<FixLine("final_steps", "", 0)>>
    /\ fpc' = "done"
    /\ UNCHANGED <<stringsFile, strings_data, fixOps, origStrings, mainVars, patchVars, roomVars>>

FixNext == FixIntro \/ FixNotFound \/ FixLoadOk \/ FixLoadFail \/ FixFinal

SpecFix == FixInit /\ [][FixNext]_vars

\* --------------------------------- room_cleaning_enhancement.py: entities
MaxCalls == 3       \* async_select_option / async_press calls in one behaviour

Room(id, name) == [id |-> id, name |-> name]

\* coordinator.maps: map id -> rooms (id -> name, in dict order); two rooms of
\* map 1 carry the same name
maps ==
    [m \in {0, 1} |->
        IF m = 0
        THEN <<Room(16, "Kitchen"), Room(17, "Bedroom")>>
        ELSE <<Room(18, "Kitchen"), Room(19, "Office"), Room(20, "Office")>>]

\* values coordinator.current_map takes; map 2 is not in coordinator.maps
MapIds == {NoMap, 0, 1, 2}
VacStates == {"idle", "charging", "charging_complete", "cleaning"}
OptionNames == {"Kitchen", "Bedroom", "Office", "Garage"}

\* current_map is not None and current_map in coordinator.maps
HasCurrentMap(cm) == cm # NoMap /\ cm \in DOMAIN maps

RECURSIVE FindRoom(_, _, _, _)
\* for room_id, room_name in room_map.items(): first match is stored, break
FindRoom(room_map, i, option, selected) ==
    IF i > Len(room_map)
    THEN selected
    ELSE IF room_map[i].name = option
         THEN room_map[i].id
         ELSE FindRoom(room_map, i + 1, option, selected)

\* mutant: an option that is not found clears the selection
SelectResultClears(selected, cm, option) ==
    IF HasCurrentMap(cm) THEN FindRoom(maps[cm], 1, option, NoRoom) ELSE NoRoom

\* _selected_room_id after async_select_option(option)
SelectResult(selected, cm, option) ==
    IF HasCurrentMap(cm) THEN FindRoom(maps[cm], 1, option, selected) ELSE selected

\* RoborockRoomSelectEntity.options
options(cm) ==
    IF HasCurrentMap(cm) THEN [i \in 1..Len(maps[cm]) |-> maps[cm][i].name] ELSE << >>

\* RoborockRoomSelectEntity.current_option: room_map.get(id), None as << >>
current_option(selected, cm) ==
    IF selected # NoRoom /\ HasCurrentMap(cm)
    THEN IF \E i \in DOMAIN maps[cm] : maps[cm][i].id = selected
         THEN <<(CHOOSE r \in {maps[cm][i] : i \in DOMAIN maps[cm]} : r.id = selected).name>>
         ELSE << >>
    ELSE << >>

\* RoborockCleanRoomButtonEntity.available
available(selected, st) ==
    selected # NoRoom /\ st \in {"idle", "charging", "charging_complete"}

\* RoborockRoomInfoSensor.native_value for key total_rooms, None as << >>
native_value(cm) ==
    IF HasCurrentMap(cm) THEN <<Len(maps[cm])>> ELSE << >>

Properties == {"options", "current_option", "selected_room_id", "available", "native_value"}

\* what reading property p returns
ReadValue(p, selected, cm, st) ==
    CASE p = "options" -> options(cm)
      [] p = "current_option" -> current_option(selected, cm)
      [] p = "selected_room_id" -> IF selected = NoRoom THEN << >> ELSE <<selected>>
      [] p = "available" -> <<IF available(selected, st) THEN "True" ELSE "False">>
      [] p = "native_value" -> native_value(cm)

SegmentClean(id) == [cmd |-> "APP_SEGMENT_CLEAN", params |-> <<id>>]

RoomInit ==
    /\ MainIdle
    /\ PatchIdle
    /\ FixIdle
    /\ current_map \in MapIds
    /\ vacState \in VacStates
    /\ selected_room_id = NoRoom
    /\ sent = << >>
    /\ lastOp = NoOp
    /\ nCalls = 0
    /\ lastGood = NoRoom

\* RoborockRoomSelectEntity.async_select_option(option)
SelectOption ==
    /\ nCalls < MaxCalls
    /\ \E option \in OptionNames :
          /\ selected_room_id' = SelectResult(selected_room_id, current_map, option)
          /\ lastOp' = [op |-> "select", arg |-> option, result |-> << >>]
          /\ lastGood' =
                IF HasCurrentMap(current_map)
                   /\ \E i \in DOMAIN maps[current_map] : maps[current_map][i].name = option
                THEN selected_room_id'
                ELSE lastGood
    /\ nCalls' = nCalls + 1
    /\ UNCHANGED <<current_map, vacState, sent, mainVars, patchVars, fixVars>>

\* mutant: the selection is dropped once the command was sent
PressResetsSelection ==
    /\ nCalls < MaxCalls
    /\ IF selected_room_id # NoRoom
       THEN /\ sent' = Append(sent, SegmentClean(selected_room_id))
            /\ lastOp' = [op |-> "press", arg |-> "", result |-> <<"sent">>]
       ELSE /\ sent' = sent
            /\ lastOp' = [op |-> "press", arg |-> "", result |-> <<"error">>]
    /\ selected_room_id' = NoRoom
    /\ nCalls' = nCalls + 1
    /\ UNCHANGED <<current_map, vacState, lastGood, mainVars, patchVars, fixVars>>

\* RoborockCleanRoomButtonEntity.async_press()
Press ==
    /\ nCalls < MaxCalls
    /\ IF selected_room_id # NoRoom
       THEN /\ sent' = Append(sent, SegmentClean(selected_room_id))
            /\ lastOp' = [op |-> "press", arg |-> "", result |-> <<"sent">>]
       ELSE /\ sent' = sent
            /\ lastOp' = [op |-> "press", arg |-> "", result |-> <<"error">>]
    /\ nCalls' = nCalls + 1
    /\ UNCHANGED <<current_map, vacState, selected_room_id, lastGood,
                   mainVars, patchVars, fixVars>>

\* a property of an entity is read
ReadProperty ==
    /\ \E p \in Properties :
          lastOp' = [op |-> "read", arg |-> p,
                     result |-> ReadValue(p, selected_room_id, current_map, vacState)]
    /\ UNCHANGED <<current_map, vacState, selected_room_id, sent, nCalls, lastGood,
                   mainVars, patchVars, fixVars>>

\* the coordinator refreshes: the current map or the vacuum state changes
CoordinatorUpdate ==
    /\ \E cm \in MapIds, st \in VacStates :
          /\ <<cm, st>> # <<current_map, vacState>>
          /\ current_map' = cm
          /\ vacState' = st
    /\ lastOp' = [op |-> "update", arg |-> "", result |-> << >>]
    /\ UNCHANGED <<selected_room_id, sent, nCalls, lastGood, mainVars, patchVars, fixVars>>

RoomNext == SelectOption \/ Press \/ ReadProperty \/ CoordinatorUpdate

SpecRoom == RoomInit /\ [][RoomNext]_vars

\* =================================================================== claims
\* The four conditions as the specification words them.
MatchesAllFour(e) ==
    /\ e.platform = JStr("roborock")
    /\ e.original_name \in { JStr(n) : n \in problematic_names }
    /\ e.translation_key \notin {JNull, JStr("")}
    /\ e.has_entity_name = JTrue

MatchingIn(doc) == { i \in DOMAIN doc.entities : MatchesAllFour(doc.entities[i]) }

\* the document the specification expects from the patch
ExpectedPatched(doc) ==
    [doc EXCEPT !.entities =
        [i \in DOMAIN doc.entities |->
            IF MatchesAllFour(doc.entities[i])
            THEN [doc.entities[i] EXCEPT !.original_name = JNull]
            ELSE doc.entities[i]]]

HasEvent(e) == \E i \in DOMAIN log : log[i] = e

\* events that open the registry file path for writing
RegWriteEvents == {"reg_open_w", "restore_open_w"}
RegWrites(l) == { i \in DOMAIN l : l[i] \in RegWriteEvents }

\* C1: after the patch pass every record of the input that met all four
\* conditions has original_name null.
C1_MatchingRecordsNulled ==
    ppc = "once" =>
        /\ DOMAIN patchOut.doc.entities = DOMAIN patchIn.entities
        /\ \A i \in MatchingIn(patchIn) : patchOut.doc.entities[i].original_name = JNull

C1_Witness ==
    /\ ppc = "once"
    /\ MatchingIn(patchIn) # {}
    /\ \A i \in MatchingIn(patchIn) :
          /\ patchIn.entities[i].original_name = JStr("Duration")
          /\ patchOut.doc.entities[i].original_name = JNull

\* C2: the patch pass changes only original_name of matching records: a
\* record failing a condition is identical before and after, every record
\* keeps its other fields, and record order and metadata are unchanged.
C2_OnlyMatchingNamesChange ==
    ppc = "once" =>
        /\ patchOut.doc.meta = patchIn.meta
        /\ DOMAIN patchOut.doc.entities = DOMAIN patchIn.entities
        /\ \A i \in DOMAIN patchIn.entities :
              LET a == patchIn.entities[i]
                  b == patchOut.doc.entities[i]
              IN  /\ b.entity_id = a.entity_id
                  /\ b.translation_key = a.translation_key
                  /\ b.has_entity_name = a.has_entity_name
                  /\ b.platform = a.platform
                  /\ DOMAIN b = DOMAIN a
                  /\ ~MatchesAllFour(a) => b = a

C2_Witness ==
    /\ ppc = "once"
    /\ \E i \in DOMAIN patchIn.entities :
          /\ patchIn.entities[i].platform = JStr("roborock")
          /\ patchIn.entities[i].original_name = JStr("Duration")
          /\ patchIn.entities[i].translation_key = JStr("main_brush_time_left")
          /\ patchIn.entities[i].has_entity_name = JFalse
          /\ patchOut.doc.entities[i] = patchIn.entities[i]
    /\ MatchingIn(patchIn) # {}
    /\ patchOut.doc # patchIn

\* C3: patching the patched document gives the same document again and a
\* changed count of 0.
C3_Idempotent ==
    ppc = "twice" =>
        /\ patchOut.doc = patchFirst.doc
        /\ patchOut.cleaned_count = 0

C3_Witness ==
    /\ ppc = "twice"
    /\ patchFirst.cleaned_count > 0
    /\ patchFirst.doc # patchIn
    /\ patchOut.doc = patchFirst.doc

\* C4: cleaned_count equals the number of records matching all four
\* conditions, whatever the number of matching and other records.
C4_CountEqualsMatching ==
    ppc = "once" => patchOut.cleaned_count = Cardinality(MatchingIn(patchIn))

C4_Witness ==
    /\ ppc = "once"
    /\ patchOut.cleaned_count = 1
    /\ Len(patchIn.entities) = 2
    /\ Cardinality(MatchingIn(patchIn)) = 1

\* C5: every write to the registry file path comes after a successful
\* backup, the backup file then holds the original content, and it still
\* does when a successful run exits.
C5_BackupBeforeWrite ==
    /\ [][ RegWrites(log') # RegWrites(log) =>
              /\ HasEvent("out:backup_created")
              /\ backupFile = origReg
              /\ backupFile' = origReg ]_vars
    /\ [](pc = "done" /\ exitCode = 0 => backupFile = origReg)

C5_Witness ==
    /\ pc = "done"
    /\ exitCode = 0
    /\ HasEvent("reg_open_w")
    /\ regFile # origReg
    /\ backupFile = origReg

ReadFailed == HasEvent("raise_read:parse") \/ HasEvent("raise_read:io")

\* C6 as stated: when the registry file cannot be read or parsed, a read
\* failure is reported and nothing is written to the registry file path
\* from start to exit.
C6_NoWriteOnReadFailure ==
    ReadFailed =>
        /\ HasEvent("out:clean_failed")
        /\ RegWrites(log) = {}
        /\ regFile = origReg

\* C6 amended: a read failure is reported, clean_roborock_entities writes
\* nothing and no patched document is persisted; the only write to the
\* registry file path is the restoring copy made by main, and unless that
\* copy fails the registry file keeps its original content.
C6_OnlyRestoreWritesOnReadFailure ==
    ReadFailed =>
        /\ HasEvent("out:clean_failed")
        /\ ~HasEvent("reg_open_w")
        /\ ~HasEvent("raise_write")
        /\ registry = NoDoc
        /\ cleaned_count = 0
        /\ regFile # origReg => HasEvent("out:restore_failed")
        /\ pc = "done" => (HasEvent("out:restored") \/ HasEvent("out:restore_failed"))

C6_Witness ==
    /\ pc = "done"
    /\ origReg = Garbage
    /\ HasEvent("raise_read:parse")
    /\ HasEvent("restore_open_w")
    /\ HasEvent("out:restored")
    /\ regFile = origReg

\* C7: when the registry file is absent at start, the failure is reported,
\* no backup is made, the registry file is not created, exit is non-zero.
C7_AbsentRegistry ==
    ~Exists(origReg) =>
        /\ regFile = origReg
        /\ backupFile = origBackup
        /\ ~HasEvent("backup_open_w")
        /\ RegWrites(log) = {}
        /\ pc = "done" => (HasEvent("out:not_found") /\ exitCode # 0 /\ exitCode # -1)

C7_Witness ==
    /\ ~Exists(origReg)
    /\ pc = "done"
    /\ exitCode = 1
    /\ HasEvent("out:not_found")

\* C8: after a failed write main attempts the restore and exits non-zero;
\* when the restore succeeds the registry file holds its original content.
C8_WriteFailureRestores ==
    (pc = "done" /\ HasEvent("raise_write")) =>
        /\ HasEvent("out:restoring")
        /\ HasEvent("out:restored") \/ HasEvent("out:restore_failed")
        /\ HasEvent("out:restored") => regFile = origReg
        /\ exitCode = 1

C8_Witness ==
    /\ pc = "done"
    /\ HasEvent("reg_open_w")
    /\ HasEvent("raise_write")
    /\ HasEvent("out:restored")
    /\ regFile = origReg
    /\ exitCode = 1

\* C9: when the backup cannot be created the run ends at once, non-zero:
\* clean_roborock_entities does not run, the registry is not read or written.
C9_BackupFailureAborts ==
    HasEvent("out:backup_failed") =>
        /\ pc = "done"
        /\ exitCode = 1
        /\ cleanResult = "none"
        /\ registry = NoDoc
        /\ ~HasEvent("reg_open_r")
        /\ ~ReadFailed
        /\ RegWrites(log) = {}
        /\ regFile = origReg

C9_Witness ==
    /\ pc = "done"
    /\ HasEvent("out:backup_failed")
    /\ HasEvent("out:cannot_proceed")
    /\ Exists(origReg)
    /\ regFile = origReg

CompletePatched(content) ==
    /\ Parsable(origReg)
    /\ content = [kind |-> "json", fmt |-> "indent2", doc |-> ExpectedPatched(origReg.doc),
                  upto |-> Len(origReg.doc.entities)]

\* C10 as stated: at exit the registry file is the original or the complete
\* patched document, never a truncated one.
C10_NoPartialAtExit ==
    pc = "done" => (regFile = origReg \/ CompletePatched(regFile))

\* C10 amended: at exit the registry file is the original or the complete
\* patched document unless the restoring copy failed, and then the backup
\* file holds the original content.
C10_NoPartialUnlessRestoreFailed ==
    pc = "done" =>
        \/ regFile = origReg
        \/ CompletePatched(regFile)
        \/ (HasEvent("out:restore_failed") /\ backupFile = origReg)

C10_Witness ==
    /\ pc = "done"
    /\ regFile.kind = "partial"
    /\ HasEvent("raise_write")
    /\ HasEvent("out:restore_failed")
    /\ backupFile = origReg

\* C11: the exit status tells success from failure: non-zero when the
\* registry file is absent, when the backup fails, and when cleaning fails
\* (restore succeeding or not); zero only when clean_roborock_entities
\* returned True.
C11_ExitCodeReflectsOutcome ==
    pc = "done" =>
        /\ exitCode \in {0, 1}
        /\ exitCode = 0 <=> cleanResult = "True"
        /\ ~Exists(origReg) => exitCode # 0
        /\ HasEvent("out:backup_failed") => exitCode # 0
        /\ HasEvent("out:clean_failed") => exitCode # 0
        /\ HasEvent("out:restored") => exitCode # 0
        /\ HasEvent("out:restore_failed") => exitCode # 0

C11_Witness ==
    /\ pc = "done"
    /\ HasEvent("out:clean_failed")
    /\ HasEvent("out:restored")
    /\ cleanResult = "False"
    /\ exitCode = 1

\* the run read and parsed a registry in which no record meets the four
\* conditions
CleanRegistryLoaded ==
    /\ Parsable(origReg)
    /\ MatchingIn(origReg.doc) = {}
    /\ HasEvent("reg_open_r")

\* C14: when a readable, parsable registry has no matching record, the
\* registry file is never opened for writing and keeps its original bytes,
\* clean_roborock_entities returns True and no restore is made.
C14_NoWriteWhenNothingMatches ==
    CleanRegistryLoaded =>
        /\ RegWrites(log) = {}
        /\ regFile = origReg
        /\ cleaned_count = 0
        /\ ~HasEvent("out:restoring")
        /\ pc \in {"main_result", "done"} => cleanResult = "True"
        /\ pc = "done" => exitCode = 0

C14_Witness ==
    /\ pc = "done"
    /\ CleanRegistryLoaded
    /\ Len(origReg.doc.entities) > 0
    /\ origReg.fmt = "compact"
    /\ HasEvent("out:already_clean")
    /\ regFile = origReg
    /\ regFile # Dump(registry)

\* the keys the diagnostic script is expected to report on
ExpectedKeys == {"main_brush_time_left", "cleaning_time", "total_rooms_available"}

StatusLineFor(k) ==
    \E i \in DOMAIN fixOut : fixOut[i].key = k /\ fixOut[i].tag \in {"key_found", "key_missing"}

FixWroteNothing ==
    /\ stringsFile = origStrings
    /\ \A i \in DOMAIN fixOps : fixOps[i] \in {"exists", "open_r", "open_r:io", "open_r:garbage", "open_r:badshape"}

\* C12 as stated: every run prints a found or missing line for each of the
\* three expected keys, whatever the state of strings.json, and no file is
\* written, created or deleted.
C12_StatusLineForEveryKey ==
    fpc = "done" => ((\A k \in ExpectedKeys : StatusLineFor(k)) /\ FixWroteNothing)

\* C12 amended: a run that reads and parses strings.json prints a found or
\* missing line for each of the three expected keys, found exactly for the
\* keys present; a run where the file is absent or cannot be read or parsed
\* prints one not-found or error line and no per-key line; no run writes,
\* creates or deletes a file.
C12_StatusLinesWhenParsed ==
    /\ FixWroteNothing
    /\ fpc = "done" =>
          IF \E i \in DOMAIN fixOps : fixOps[i] = "open_r"
          THEN \A k \in ExpectedKeys :
                 /\ StatusLineFor(k)
                 /\ \A i \in DOMAIN fixOut : fixOut[i].key = k =>
                        (fixOut[i].tag = "key_found" <=> k \in origStrings.keys)
          ELSE /\ \A k \in ExpectedKeys : ~StatusLineFor(k)
               /\ \E i \in DOMAIN fixOut : fixOut[i].tag \in {"strings_not_found", "strings_error"}

C12_Witness ==
    /\ fpc = "done"
    /\ origStrings.kind = "json"
    /\ "cleaning_time" \in origStrings.keys
    /\ "total_rooms_available" \notin origStrings.keys
    /\ \E i \in DOMAIN fixOut : fixOut[i] = FixLine("key_found", "cleaning_time", 0)
    /\ \E i \in DOMAIN fixOut : fixOut[i] = FixLine("key_missing", "total_rooms_available", 0)

\* a step that is a call of the named entity method
CallStep(op) == nCalls' = nCalls + 1 /\ lastOp'.op = op

\* ids of the rooms of the current map called `name`; empty without a valid map
RoomsNamed(cm, name) ==
    IF cm = NoMap \/ cm \notin DOMAIN maps
    THEN {}
    ELSE { maps[cm][i].id : i \in { j \in DOMAIN maps[cm] : maps[cm][j].name = name } }

\* C13 as stated: no entity operation changes state held by the entity.
C13_EntitiesStateless ==
    [][selected_room_id' = selected_room_id]_vars

\* C13 amended: the only state an entity holds is the select entity's
\* _selected_room_id, and only async_select_option changes it; async_press
\* and reading a property change no entity state, and reading a property
\* sends nothing.
C13_OnlySelectChangesEntityState ==
    [][ /\ selected_room_id' # selected_room_id => CallStep("select")
        /\ CallStep("press") => selected_room_id' = selected_room_id
        /\ lastOp'.op \in {"read", "update"} =>
              (selected_room_id' = selected_room_id /\ sent' = sent) ]_vars

C13_Witness ==
    /\ lastOp.op = "press"
    /\ lastOp.result = <<"sent">>
    /\ selected_room_id # NoRoom
    /\ Len(sent) = 2
    /\ sent[1] = sent[2]

\* C15: async_press sends exactly one APP_SEGMENT_CLEAN with the id stored
\* by the latest async_select_option call whose option named a room of the
\* then-current map, and raises, sending nothing, when there was none; a
\* call with an unknown name or without a valid current map leaves the
\* stored id as it was; once set the stored id is never cleared, also when
\* the current map changes to one without that room.
C15_PressSendsLastSelectedRoom ==
    [][ /\ CallStep("press") =>
              IF lastGood # NoRoom
              THEN sent' = Append(sent, SegmentClean(lastGood)) /\ lastOp'.result = <<"sent">>
              ELSE sent' = sent /\ lastOp'.result = <<"error">>
        /\ CallStep("select") =>
              IF RoomsNamed(current_map, lastOp'.arg) = {}
              THEN selected_room_id' = selected_room_id
              ELSE selected_room_id' \in RoomsNamed(current_map, lastOp'.arg)
        /\ ~CallStep("press") => sent' = sent
        /\ selected_room_id # NoRoom => selected_room_id' # NoRoom
        /\ current_map' # current_map => selected_room_id' = selected_room_id ]_vars

C15_Witness ==
    /\ lastOp.op = "press"
    /\ lastOp.result = <<"sent">>
    /\ selected_room_id = 17
    /\ lastGood = 17
    /\ current_map = 1
    /\ sent = <<SegmentClean(17)>>
    /\ nCalls = 3

====
